---- MODULE Spec2Model ----
(***************************************************************************)
(* Model of deploy/yolov8_onnx_live.py: the ONNXDetect pipeline (resize,   *)
(* decode, rescale, non-maximum suppression) and the frame loop of test(). *)
(*                                                                         *)
(* Number representation.  Pixel quantities of a raw output row are        *)
(* integers (float32 values that happen to be whole pixels); half pixels   *)
(* arise from cx - w/2.  Scores are integers in hundredths (0.25 is 25,    *)
(* 0.7 is 70).  A scale is the exact fraction <<h, H>>, so every quotient  *)
(* the code forms is computed exactly and then truncated as Python's       *)
(* int() truncates.  Python positions 0..n-1 of a list are positions 1..n  *)
(* of the sequence that models it; class ids keep their 0-based values.    *)
(*                                                                         *)
(* Three specifications share the variables: SpecDetect (one call of       *)
(* __call__ on a raw output), SpecResize (resize and the way back through  *)
(* the rescaling) and SpecLoop (the frame loop of test()).                 *)
(***************************************************************************)
EXTENDS Integers, Sequences, FiniteSets, TLC

VARIABLES
    pc,             \* position in __call__ / resize / test()
    image_shape,    \* <<H, W>> of the frame given to resize
    input_size,     \* args.input_size
    raw,            \* rows of the transposed model output (outputs[i])
    scale,          \* <<h, H>>: the scale returned by resize
    boxes,          \* __call__: boxes
    scores,         \* __call__: scores
    class_indices,  \* __call__: class_indices
    indices,        \* __call__: result of cv2.dnn.NMSBoxes
    nms_outputs,    \* __call__: returned list
    resized,        \* resize: <<w, h>> of the resized image
    orig_box,       \* round trip: a box of the original frame
    rec_box,        \* round trip: the box recovered by the rescaler
    model_classes,  \* number of class scores per row the loaded model emits
    now,            \* the clock read by time.time(), in ticks
    start_time,     \* test(): start_time
    frame_counter,  \* test(): frame_counter
    end_time,       \* test(): end_time
    report,         \* last "FPS:" line printed: <<frame_counter, end_time>>
    outputs,        \* test(): outputs of model(image)
    ret,            \* test(): ret of the last source.read(), "none" before
    count,          \* how often each step of test() has run
    since_reset,    \* frames inferred since frame_counter was last reset
    quit_seen       \* the poll has returned ord('q')

dvars == <<raw, scale, boxes, scores, class_indices, indices, nms_outputs>>
rvars == <<resized, orig_box, rec_box>>
lvars == <<model_classes, now, start_time, frame_counter, end_time, report,
           outputs, ret, count, since_reset, quit_seen>>
vars == <<pc, image_shape, input_size, dvars, rvars, lvars>>

----------------------------------------------------------------------------
(* Program constants *)

confidence_threshold == 25
iou_threshold == 70
DefaultInputSize == 160

\* test(): class_labels and the keys of label_colors
class_labels == <<"normal", "karies kecil", "karies sedang", "karies besar",
                  "stain", "karang gigi", "lain-lain">>
label_colors == {"normal", "karies kecil", "karies sedang", "karies besar",
                 "stain", "karang gigi", "lain-lain"}
NumLabels == Len(class_labels)

(* Bounds of the model *)
MaxRows == 3
MaxDim == 6
MaxInput == 4
MaxFrames == 3
MaxTime == 5
TicksPerSec == 2

----------------------------------------------------------------------------
(* Arithmetic *)

Max2(a, b) == IF a >= b THEN a ELSE b
Min2(a, b) == IF a <= b THEN a ELSE b

\* Faulty variant of Trunc: rounds towards minus infinity
TruncFloor(n, d) == n \div d

\* Python int() of the exact quotient n/d, d > 0: truncation towards zero
Trunc(n, d) == IF n >= 0 THEN n \div d ELSE -((-n) \div d)

----------------------------------------------------------------------------
(* ONNXDetect.resize *)

\* w, h of the resized image and scale = float(h) / shape[0]
resize(shape, isz) ==
    LET H == shape[1]
        W == shape[2]
    IN  IF H > W
        THEN [h |-> isz, w |-> Trunc(isz * W, H), scale |-> <<isz, H>>]
        ELSE [w |-> isz, h |-> Trunc(isz * H, W), scale |-> <<Trunc(isz * H, W), H>>]

\* cv2.resize rejects an empty target size
ResizeOk(rs) == rs.w > 0 /\ rs.h > 0

----------------------------------------------------------------------------
(* ONNXDetect.__call__: decoding and rescaling *)

RECURSIVE Amax(_)
Amax(s) == IF Len(s) = 1 THEN s[1] ELSE Max2(s[1], Amax(Tail(s)))

\* numpy.argmax: the first position of the maximum, 0-based
Argmax(s) == (CHOOSE k \in 1..Len(s) :
                 /\ s[k] = Amax(s)
                 /\ \A j \in 1..(k - 1) : s[j] # Amax(s)) - 1

Passes(row) == Amax(row.cls) >= confidence_threshold

\* [left, top, width, height] with scale = sc[1] / sc[2]; the pixel
\* quantities of the row are counted in units of 1/row.den pixel
Rescale(row, sc) ==
    <<Trunc((2 * row.cx - row.w) * sc[2], 2 * sc[1] * row.den),
      Trunc((2 * row.cy - row.h) * sc[2], 2 * sc[1] * row.den),
      Trunc(row.w * sc[2], sc[1] * row.den),
      Trunc(row.h * sc[2], sc[1] * row.den)>>

\* the rows that pass the confidence filter, in row order
Decoded(rows) == SelectSeq(rows, Passes)

DecodeBoxes(rows, sc) ==
    [k \in 1..Len(Decoded(rows)) |-> Rescale(Decoded(rows)[k], sc)]
DecodeScores(rows) ==
    [k \in 1..Len(Decoded(rows)) |-> Amax(Decoded(rows)[k].cls)]
DecodeClasses(rows) ==
    [k \in 1..Len(Decoded(rows)) |-> Argmax(Decoded(rows)[k].cls)]

----------------------------------------------------------------------------
(* cv2.dnn.NMSBoxes(boxes, scores, score_threshold, nms_threshold), called  *)
(* at line 76.  OpenCV's implementation (GetMaxScoreIndex and NMSFast_ of   *)
(* the dnn module) keeps the scores strictly above score_threshold, sorts   *)
(* them stably in descending order and keeps a box when its overlap with    *)
(* every box kept so far is <= nms_threshold; the overlap is                *)
(* 1 - jaccardDistance, which is 1 for two boxes of zero area.  It does not *)
(* look at classes.                                                         *)

\* area of the intersection rectangle (Rect operator &)
InterArea(a, b) ==
    LET x1 == Max2(a[1], b[1])
        y1 == Max2(a[2], b[2])
        w  == Min2(a[1] + a[3], b[1] + b[3]) - x1
        h  == Min2(a[2] + a[4], b[2] + b[4]) - y1
    IN  IF w <= 0 \/ h <= 0 THEN 0 ELSE w * h

\* Faulty variant of rectOverlap: the union counts the intersection twice
rectOverlapNoSub(a, b) ==
    LET Aa == a[3] * a[4]
        Ab == b[3] * b[4]
    IN  IF Aa + Ab <= 0 THEN <<1, 1>>
        ELSE <<InterArea(a, b), Aa + Ab>>

\* 1 - jaccardDistance(a, b) as the fraction <<numerator, denominator>>
rectOverlap(a, b) ==
    LET Aa == a[3] * a[4]
        Ab == b[3] * b[4]
    IN  IF Aa + Ab <= 0 THEN <<1, 1>>
        ELSE <<InterArea(a, b), Aa + Ab - InterArea(a, b)>>

\* keep = overlap <= nms_threshold
KeepWith(a, b, nms_threshold) ==
    rectOverlap(a, b)[1] * 100 <= nms_threshold * rectOverlap(a, b)[2]

\* Faulty variant of AboveScore: inclusive score filter
AboveScoreGeq(s, score_threshold) == s >= score_threshold

\* GetMaxScoreIndex keeps scores[i] > threshold
AboveScore(s, score_threshold) == s > score_threshold

RECURSIVE SortDescend(_, _)
\* std::stable_sort by score, descending
SortDescend(S, sc) ==
    IF S = {} THEN <<>>
    ELSE LET best == CHOOSE i \in S : \A j \in S :
                        sc[i] > sc[j] \/ (sc[i] = sc[j] /\ i <= j)
         IN  <<best>> \o SortDescend(S \ {best}, sc)

GetMaxScoreIndex(sc, score_threshold) ==
    SortDescend({i \in 1..Len(sc) : AboveScore(sc[i], score_threshold)}, sc)

RECURSIVE NMSFast(_, _, _, _)
\* greedy pass over the sorted positions; kept is the list built so far
NMSFast(order, bxs, nms_threshold, kept) ==
    IF order = <<>> THEN kept
    ELSE LET idx  == Head(order)
             keep == \A k \in 1..Len(kept) :
                        KeepWith(bxs[idx], bxs[kept[k]], nms_threshold)
         IN  NMSFast(Tail(order), bxs, nms_threshold,
                     IF keep THEN Append(kept, idx) ELSE kept)

NMSBoxes(bxs, sc, score_threshold, nms_threshold) ==
    NMSFast(GetMaxScoreIndex(sc, score_threshold), bxs, nms_threshold, <<>>)

\* nms_outputs: [*box, score, class_id] for every selected position
Collect(bxs, sc, cls, idxs) ==
    [k \in 1..Len(idxs) |->
        [left |-> bxs[idxs[k]][1], top |-> bxs[idxs[k]][2],
         width |-> bxs[idxs[k]][3], height |-> bxs[idxs[k]][4],
         score |-> sc[idxs[k]], class_id |-> cls[idxs[k]]]]

\* the whole of __call__ for a frame whose resize succeeds
Call(shape, isz, rows) ==
    LET sc == resize(shape, isz).scale
    IN  Collect(DecodeBoxes(rows, sc), DecodeScores(rows), DecodeClasses(rows),
                NMSBoxes(DecodeBoxes(rows, sc), DecodeScores(rows),
                         confidence_threshold, iou_threshold))

----------------------------------------------------------------------------
(* Inputs of the detection pipeline *)

\* boxes (cx, cy, w, h) in canvas pixels that overlap one another around the
\* IoU threshold, and a box that crosses the left and top border
OverlapBoxes == {<<80, 80, 40, 40>>, <<74, 80, 41, 40>>, <<81, 80, 44, 40>>}
BorderBox == <<10, 12, 21, 25>>

\* class score vectors of a model with NumLabels classes: maxima 0.9 and 0.3
\* at class 2, 0.5 at classes 0 and 1, 0.25 at class 1, 0.2 at class 0
HighVecs == {<<0, 0, 90, 0, 0, 0, 0>>, <<50, 50, 0, 0, 0, 0, 0>>,
             <<10, 0, 30, 0, 0, 0, 0>>}
BorderVecs == {<<0, 0, 90, 0, 0, 0, 0>>, <<0, 25, 5, 0, 0, 0, 0>>,
               <<20, 10, 0, 0, 0, 0, 0>>}

Row(b, v) == [cx |-> b[1], cy |-> b[2], w |-> b[3], h |-> b[4], den |-> 1,
              cls |-> v]

Rows == {Row(b, v) : b \in OverlapBoxes, v \in HighVecs} \cup
        {Row(BorderBox, v) : v \in BorderVecs}

SeqsUpTo(S, n) == UNION {[1..k -> S] : k \in 0..n}

\* frame shapes <<H, W>>: scale 1/2 and scale 1 at input size 160
Shapes == {<<320, 160>>, <<120, 160>>}

\* the steps of test() that are counted
Steps == {"read", "read_failed", "infer", "annotate", "fps", "report", "show",
          "poll", "release"}

IdleD == /\ raw = <<>> /\ scale = <<1, 1>> /\ boxes = <<>> /\ scores = <<>>
         /\ class_indices = <<>> /\ indices = <<>> /\ nms_outputs = <<>>
IdleR == /\ resized = <<0, 0>> /\ orig_box = <<0, 0, 0, 0>>
         /\ rec_box = <<0, 0, 0, 0>>
IdleL == /\ model_classes = NumLabels /\ now = 0 /\ start_time = 0
         /\ frame_counter = 0 /\ end_time = 0 /\ report = <<>>
         /\ outputs = <<>> /\ ret = "none"
         /\ count = [s \in Steps |-> 0]
         /\ since_reset = 0 /\ quit_seen = FALSE

----------------------------------------------------------------------------
(* Specification of one call of ONNXDetect.__call__ *)

InitDetect ==
    /\ pc = "call"
    /\ image_shape \in Shapes
    /\ input_size = DefaultInputSize
    /\ raw \in SeqsUpTo(Rows, MaxRows)
    /\ scale = <<1, 1>> /\ boxes = <<>> /\ scores = <<>>
    /\ class_indices = <<>> /\ indices = <<>> /\ nms_outputs = <<>>
    /\ IdleR /\ IdleL

\* lines 33-73: resize and session.run, then the loop over the rows
Decode ==
    /\ pc = "call"
    /\ ResizeOk(resize(image_shape, input_size))
    /\ scale' = resize(image_shape, input_size).scale
    /\ resized' = <<resize(image_shape, input_size).w,
                    resize(image_shape, input_size).h>>
    /\ boxes' = DecodeBoxes(raw, scale')
    /\ scores' = DecodeScores(raw)
    /\ class_indices' = DecodeClasses(raw)
    /\ pc' = "nms"
    /\ UNCHANGED <<image_shape, input_size, raw, indices, nms_outputs,
                   orig_box, rec_box, lvars>>

\* Faulty variant of Suppress: suppression decided on the canvas-space boxes
SuppressOnCanvas ==
    /\ pc = "nms"
    /\ indices' = NMSBoxes([k \in 1..Len(Decoded(raw)) |->
                               <<4 * Decoded(raw)[k].cx - 2 * Decoded(raw)[k].w,
                                 4 * Decoded(raw)[k].cy - 2 * Decoded(raw)[k].h,
                                 4 * Decoded(raw)[k].w, 4 * Decoded(raw)[k].h>>],
                           scores, confidence_threshold, iou_threshold)
    /\ nms_outputs' = Collect(boxes, scores, class_indices, indices')
    /\ pc' = "returned"
    /\ UNCHANGED <<image_shape, input_size, raw, scale, boxes, scores,
                   class_indices, rvars, lvars>>

\* lines 76-86: NMSBoxes, then the returned list
Suppress ==
    /\ pc = "nms"
    /\ indices' = NMSBoxes(boxes, scores, confidence_threshold, iou_threshold)
    /\ nms_outputs' = Collect(boxes, scores, class_indices, indices')
    /\ pc' = "returned"
    /\ UNCHANGED <<image_shape, input_size, raw, scale, boxes, scores,
                   class_indices, rvars, lvars>>

NextDetect == Decode \/ Suppress

SpecDetect == InitDetect /\ [][NextDetect]_vars

----------------------------------------------------------------------------
(* Properties of __call__ *)

Range(f) == {f[k] : k \in DOMAIN f}

\* q is n/d rounded towards zero, d > 0
IsTruncOf(q, n, d) ==
    IF n >= 0 THEN q * d <= n /\ n < (q + 1) * d
              ELSE (q - 1) * d < n /\ n <= q * d

\* q is the floor of n/d, d > 0
IsFloorOf(q, n, d) == q * d <= n /\ n < (q + 1) * d

MaxScoreAtLeast(row, t) == \E k \in DOMAIN row.cls : row.cls[k] >= t

\* the rows the decoder must emit, in row order
EmittedRows == SelectSeq(raw, LAMBDA r : MaxScoreAtLeast(r, confidence_threshold))

IsMaxOf(v, s) == (\E k \in DOMAIN s : s[k] = v) /\ (\A k \in DOMAIN s : s[k] <= v)

IsFirstArgmaxOf(c, s) ==
    /\ c + 1 \in DOMAIN s
    /\ IsMaxOf(s[c + 1], s)
    /\ \A k \in DOMAIN s : k < c + 1 => s[k] < s[c + 1]

\* b is the box of row at the current scale under the rounding Rounds
BoxRounded(b, row, Rounds(_, _, _)) ==
    /\ Rounds(b[1], (2 * row.cx - row.w) * scale[2], 2 * scale[1] * row.den)
    /\ Rounds(b[2], (2 * row.cy - row.h) * scale[2], 2 * scale[1] * row.den)
    /\ Rounds(b[3], row.w * scale[2], scale[1] * row.den)
    /\ Rounds(b[4], row.h * scale[2], scale[1] * row.den)

Decoding(Rounds(_, _, _)) ==
    LET er == EmittedRows
    IN  /\ Len(boxes) = Len(er)
        /\ Len(scores) = Len(er)
        /\ Len(class_indices) = Len(er)
        /\ \A i \in 1..Len(er) :
              /\ BoxRounded(boxes[i], er[i], Rounds)
              /\ IsMaxOf(scores[i], er[i].cls)
              /\ IsFirstArgmaxOf(class_indices[i], er[i].cls)

Copied ==
    /\ Len(nms_outputs) = Len(indices)
    /\ \A k \in 1..Len(indices) :
          /\ indices[k] \in 1..Len(boxes)
          /\ <<nms_outputs[k].left, nms_outputs[k].top,
               nms_outputs[k].width, nms_outputs[k].height>> = boxes[indices[k]]
          /\ nms_outputs[k].score = scores[indices[k]]
          /\ nms_outputs[k].class_id = class_indices[indices[k]]

Decoded_pc == pc \in {"nms", "returned"}

\* C1 (as stated): every emitted row yields the box floor((cx - w/2)/scale),
\* floor((cy - h/2)/scale), floor(w/scale), floor(h/scale), with score and
\* class id copied unchanged into the returned detections.
C1_Floor ==
    /\ Decoded_pc => Decoding(IsFloorOf)
    /\ pc = "returned" => Copied

\* C1 (amended): the four values are the quotients rounded towards zero, as
\* int() rounds; they equal the floor only where the quotient is not negative.
C1_Trunc ==
    /\ Decoded_pc => Decoding(IsTruncOf)
    /\ pc = "returned" => Copied

\* the scenario row gives (120, 120, 80, 80, 0.9, 2) at scale 1/2, next to a
\* returned box whose left edge is negative
C1_Witness ==
    /\ pc = "returned"
    /\ scale[2] = 2 * scale[1]
    /\ \E k \in 1..Len(nms_outputs) :
          nms_outputs[k] = [left |-> 120, top |-> 120, width |-> 80,
                            height |-> 80, score |-> 90, class_id |-> 2]
    /\ \E k \in 1..Len(nms_outputs) : nms_outputs[k].left < 0

----------------------------------------------------------------------------

\* IoU of two boxes exceeds t/100 (two empty boxes count as overlapping)
OverlapLen(l1, w1, l2, w2) == Max2(0, Min2(l1 + w1, l2 + w2) - Max2(l1, l2))
Inter(a, b) == OverlapLen(a[1], a[3], b[1], b[3]) * OverlapLen(a[2], a[4], b[2], b[4])
Union(a, b) == a[3] * a[4] + b[3] * b[4] - Inter(a, b)
IoUExceeds(a, b, t) ==
    IF a[3] * a[4] + b[3] * b[4] = 0 THEN TRUE
    ELSE 100 * Inter(a, b) > t * Union(a, b)
IoUAtLeast(a, b, t) ==
    IF a[3] * a[4] + b[3] * b[4] = 0 THEN TRUE
    ELSE 100 * Inter(a, b) >= t * Union(a, b)

Kept == Range(indices)

\* candidate j is visited before candidate i by the greedy pass
Before(j, i) == scores[j] > scores[i] \/ (scores[j] = scores[i] /\ j < i)

\* canvas-space box (left, top, w, h) of a row, in quarter pixels
CanvasBox(row) ==
    <<4 * row.cx - 2 * row.w, 4 * row.cy - 2 * row.h, 4 * row.w, 4 * row.h>>

CanvasBoxes == LET er == EmittedRows
               IN  [i \in 1..Len(er) |-> CanvasBox(er[i])]

\* Decode -> NMS on canvas-space boxes -> Rescale of the kept candidates
CanvasFirst ==
    Range(Collect(boxes, scores, class_indices,
                  NMSBoxes(CanvasBoxes, scores, confidence_threshold,
                           iou_threshold)))

\* C2 (as stated): the returned detections are those of Decode -> NMS ->
\* Rescale, with NMS deciding on the canvas-space boxes.
C2_CanvasOrder == pc = "returned" => Range(nms_outputs) = CanvasFirst

\* C2 (amended): the pipeline is Decode -> Rescale -> NMS: the kept
\* candidates are exactly the greedy selection over the rescaled, truncated
\* original-frame boxes, and the returned list is these candidates.
C2_RescaledOrder ==
    pc = "returned" =>
        /\ Decoding(IsTruncOf)
        /\ Copied
        /\ LET K == Kept
           IN  /\ Cardinality(K) = Len(indices)
               /\ \A i \in 1..Len(boxes) :
                     i \in K <=>
                        /\ scores[i] > confidence_threshold
                        /\ \A j \in K :
                              Before(j, i) =>
                                 ~IoUExceeds(boxes[j], boxes[i], iou_threshold)

\* a call on which the two orders of the stages return different detections
C2_Witness ==
    /\ pc = "returned"
    /\ Range(nms_outputs) # CanvasFirst
    /\ Len(boxes) >= 2

----------------------------------------------------------------------------

\* C3 (as stated): of two same-class candidates with IoU >= iou_threshold the
\* higher-scoring one is returned and the lower-scoring one is not.
C3_PairElimination ==
    pc = "returned" =>
        \A i, j \in 1..Len(boxes) :
            ( /\ class_indices[i] = class_indices[j]
              /\ scores[i] > scores[j]
              /\ IoUAtLeast(boxes[i], boxes[j], iou_threshold) )
            => (i \in Kept /\ j \notin Kept)

\* C3 (amended): two candidates whose rescaled boxes have IoU strictly above
\* iou_threshold are never both returned, whatever their classes; so when
\* the higher-scoring one is returned the lower-scoring one is not.
C3_NeverBoth ==
    pc = "returned" =>
        \A i, j \in 1..Len(boxes) :
            (i # j /\ IoUExceeds(boxes[i], boxes[j], iou_threshold))
            => ~(i \in Kept /\ j \in Kept)

\* three candidates, each pair overlapping above the threshold, of which
\* only the highest-scoring one is returned
C3_Witness ==
    /\ pc = "returned"
    /\ \E i, j, k \in 1..Len(boxes) :
          /\ scores[i] > scores[j] /\ scores[j] > scores[k]
          /\ scores[k] > confidence_threshold
          /\ IoUExceeds(boxes[i], boxes[j], iou_threshold)
          /\ IoUExceeds(boxes[j], boxes[k], iou_threshold)
          /\ IoUExceeds(boxes[i], boxes[k], iou_threshold)
          /\ Kept = {i}

----------------------------------------------------------------------------

\* candidate i is suppressed by a kept candidate satisfying Rel
SuppressedBy(i, Rel(_, _)) ==
    \E j \in Kept : Rel(j, i) /\ IoUExceeds(boxes[j], boxes[i], iou_threshold)

Higher(j, i) == scores[j] > scores[i]

\* C4 (as stated): every row with max_score >= confidence_threshold is
\* emitted, and an emitted candidate is missing from the result only if a
\* higher-scoring kept candidate overlaps it.
C4_Redundant ==
    /\ Decoded_pc => Len(boxes) = Len(EmittedRows)
    /\ pc = "returned" =>
          \A i \in 1..Len(boxes) : i \notin Kept => SuppressedBy(i, Higher)

\* C4 (amended): every row with max_score >= confidence_threshold is
\* emitted; NMSBoxes then drops exactly the candidates whose score equals
\* the threshold, and a candidate with a score above it is missing only if a
\* kept candidate visited before it (higher score, or equal score and
\* earlier row) overlaps it with IoU above iou_threshold.
C4_StrictScore ==
    /\ Decoded_pc => Len(boxes) = Len(EmittedRows)
    /\ pc = "returned" =>
          \A i \in 1..Len(boxes) :
             /\ scores[i] >= confidence_threshold
             /\ scores[i] = confidence_threshold => i \notin Kept
             /\ (scores[i] > confidence_threshold /\ i \notin Kept)
                   => SuppressedBy(i, Before)

\* a row at exactly the threshold is emitted and then dropped although
\* nothing overlaps it, while another candidate is returned
C4_Witness ==
    /\ pc = "returned"
    /\ \E i \in 1..Len(boxes) :
          /\ scores[i] = confidence_threshold
          /\ i \notin Kept
          /\ \A j \in 1..Len(boxes) :
                j # i => ~IoUExceeds(boxes[j], boxes[i], iou_threshold)
    /\ Kept # {}

----------------------------------------------------------------------------
(* Specification of ONNXDetect.resize and of the way back through the      *)
(* rescaling of __call__                                                   *)

InitResize ==
    /\ pc = "resize"
    /\ image_shape \in (1..MaxDim) \X (1..MaxDim)
    /\ input_size \in 1..MaxInput
    /\ IdleD /\ IdleR /\ IdleL

\* lines 90-103 when cv2.resize accepts the target size
Resize ==
    /\ pc = "resize"
    /\ ResizeOk(resize(image_shape, input_size))
    /\ resized' = <<resize(image_shape, input_size).w,
                    resize(image_shape, input_size).h>>
    /\ scale' = resize(image_shape, input_size).scale
    /\ pc' = "resized"
    /\ UNCHANGED <<image_shape, input_size, raw, boxes, scores, class_indices,
                   indices, nms_outputs, orig_box, rec_box, lvars>>

\* lines 90-100 when w or h is 0: scale is computed, cv2.resize raises
ResizeFails ==
    /\ pc = "resize"
    /\ ~ResizeOk(resize(image_shape, input_size))
    /\ resized' = <<resize(image_shape, input_size).w,
                    resize(image_shape, input_size).h>>
    /\ scale' = resize(image_shape, input_size).scale
    /\ pc' = "resize_error"
    /\ UNCHANGED <<image_shape, input_size, raw, boxes, scores, class_indices,
                   indices, nms_outputs, orig_box, rec_box, lvars>>

\* the boxes (left, top, width, height) inside a frame of the given shape
BoxesIn(shape) ==
    {b \in (0..shape[2]) \X (0..shape[1]) \X (0..shape[2]) \X (0..shape[1]) :
        b[1] + b[3] <= shape[2] /\ b[2] + b[4] <= shape[1]}

\* the row (cx, cy, w, h) at which cv2.resize places a box of the frame:
\* horizontal factor w/W, vertical factor h/H, in units of 1/(2*W*H) pixel
CanvasRow(b, shape, rsz) ==
    [cx  |-> (2 * b[1] + b[3]) * rsz[1] * shape[1],
     cy  |-> (2 * b[2] + b[4]) * rsz[2] * shape[2],
     w   |-> 2 * b[3] * rsz[1] * shape[1],
     h   |-> 2 * b[4] * rsz[2] * shape[2],
     den |-> 2 * shape[1] * shape[2],
     cls |-> <<100>>]

\* lines 62-68 applied to the canvas image of a box of the frame
RoundTrip ==
    /\ pc = "resized"
    /\ \E b \in BoxesIn(image_shape) :
          /\ orig_box' = b
          /\ rec_box' = Rescale(CanvasRow(b, image_shape, resized), scale)
    /\ pc' = "rescaled"
    /\ UNCHANGED <<image_shape, input_size, dvars, resized, lvars>>

NextResize == Resize \/ ResizeFails \/ RoundTrip

SpecResize == InitResize /\ [][NextResize]_vars

Abs(x) == IF x >= 0 THEN x ELSE -x

\* C5: a box of the frame, resized into the canvas and divided by the single
\* scale h/H, comes back with each of its four values within 1 pixel.
C5_Invertible ==
    pc = "rescaled" => \A k \in 1..4 : Abs(rec_box[k] - orig_box[k]) <= 1

\* C10: resize always yields 1 <= w, h <= input_size with the longer side
\* equal to input_size and a strictly positive scale, and never fails.
C10_WellDefined ==
    pc \in {"resized", "rescaled", "resize_error"} =>
        /\ 1 <= resized[1] /\ resized[1] <= input_size
        /\ 1 <= resized[2] /\ resized[2] <= input_size
        /\ Max2(resized[1], resized[2]) = input_size
        /\ scale[1] > 0
        /\ pc # "resize_error"

----------------------------------------------------------------------------
(* Specification of test(): the frame loop *)

\* a score vector of c classes with score s at class k (0-based)
PeakVec(c, k, s) == [j \in 1..c |-> IF j = k + 1 THEN s ELSE 0]

\* raw outputs the model can give for a frame: at most two rows
LoopRows(c) ==
    {[cx |-> 80, cy |-> 80, w |-> 40, h |-> 40, den |-> 1,
      cls |-> PeakVec(c, 0, 90)],
     [cx |-> 10, cy |-> 12, w |-> 21, h |-> 25, den |-> 1,
      cls |-> PeakVec(c, c - 1, 60)],
     [cx |-> 80, cy |-> 80, w |-> 40, h |-> 40, den |-> 1,
      cls |-> PeakVec(c, 1, 20)]}

CameraShape == <<120, 160>>

InitLoop ==
    /\ pc = "open"
    /\ image_shape = CameraShape
    /\ input_size = DefaultInputSize
    /\ model_classes \in (NumLabels - 1)..(NumLabels + 1)
    /\ now = 0 /\ start_time = 0 /\ frame_counter = 0 /\ end_time = 0
    /\ report = <<>> /\ outputs = <<>> /\ ret = "none"
    /\ count = [s \in Steps |-> 0]
    /\ since_reset = 0 /\ quit_seen = FALSE
    /\ IdleD /\ IdleR

Bump(step) == [count EXCEPT ![step] = @ + 1]

\* time.time() advances
Tick ==
    /\ pc \notin {"done", "crashed"}
    /\ now < MaxTime
    /\ now' = now + 1
    /\ UNCHANGED <<pc, image_shape, input_size, dvars, rvars, model_classes,
                   start_time, frame_counter, end_time, report, outputs, ret,
                   count, since_reset, quit_seen>>

\* lines 125-133: the camera opens
CameraOpened ==
    /\ pc = "open"
    /\ start_time' = now
    /\ frame_counter' = 0
    /\ pc' = "read"
    /\ UNCHANGED <<image_shape, input_size, dvars, rvars, model_classes, now,
                   end_time, report, outputs, ret, count, since_reset,
                   quit_seen>>

\* lines 125-128: "Cannot open camera", return
CameraNotOpened ==
    /\ pc = "open"
    /\ pc' = "done"
    /\ UNCHANGED <<image_shape, input_size, dvars, rvars, lvars>>

\* line 136 with ret true
ReadFrame ==
    /\ pc = "read"
    /\ count["read"] < MaxFrames
    /\ ret' = "true"
    /\ count' = Bump("read")
    /\ pc' = "infer"
    /\ UNCHANGED <<image_shape, input_size, dvars, rvars, model_classes, now,
                   start_time, frame_counter, end_time, report, outputs,
                   since_reset, quit_seen>>

\* Faulty variant of ReadFails: tries the next read
ReadFailsRetry ==
    /\ pc = "read"
    /\ ret' = "false"
    /\ count' = Bump("read_failed")
    /\ pc' = "read"
    /\ UNCHANGED <<image_shape, input_size, dvars, rvars, model_classes, now,
                   start_time, frame_counter, end_time, report, outputs,
                   since_reset, quit_seen>>

\* lines 136-139 with ret false: "Can't receive frame", break
ReadFails ==
    /\ pc = "read"
    /\ ret' = "false"
    /\ count' = Bump("read_failed")
    /\ pc' = "release"
    /\ UNCHANGED <<image_shape, input_size, dvars, rvars, model_classes, now,
                   start_time, frame_counter, end_time, report, outputs,
                   since_reset, quit_seen>>

\* lines 141-142: outputs = model(image)
Infer ==
    /\ pc = "infer"
    /\ \E rows \in SeqsUpTo(LoopRows(model_classes), 2) :
          outputs' = Call(image_shape, input_size, rows)
    /\ count' = Bump("infer")
    /\ since_reset' = since_reset + 1
    /\ pc' = "annotate"
    /\ UNCHANGED <<image_shape, input_size, dvars, rvars, model_classes, now,
                   start_time, frame_counter, end_time, report, ret,
                   quit_seen>>

\* lines 146 and 149: class_labels[index] and label_colors[label] exist for
\* every output
Labelled(outs) ==
    \A k \in 1..Len(outs) :
        /\ outs[k].class_id + 1 \in DOMAIN class_labels
        /\ class_labels[outs[k].class_id + 1] \in label_colors

\* lines 144-161 for all outputs
Annotate ==
    /\ pc = "annotate"
    /\ Labelled(outputs)
    /\ count' = Bump("annotate")
    /\ pc' = "fps"
    /\ UNCHANGED <<image_shape, input_size, dvars, rvars, model_classes, now,
                   start_time, frame_counter, end_time, report, outputs, ret,
                   since_reset, quit_seen>>

\* line 146 raises IndexError, which leaves test()
AnnotateFails ==
    /\ pc = "annotate"
    /\ ~Labelled(outputs)
    /\ pc' = "crashed"
    /\ UNCHANGED <<image_shape, input_size, dvars, rvars, lvars>>

\* lines 166-167
FpsCount ==
    /\ pc = "fps"
    /\ frame_counter' = frame_counter + 1
    /\ end_time' = now - start_time
    /\ pc' = "fps_check"
    /\ UNCHANGED <<image_shape, input_size, dvars, rvars, model_classes, now,
                   start_time, report, outputs, ret, count, since_reset,
                   quit_seen>>

\* Faulty variant of FpsReport: the counter is not reset
FpsReportNoReset ==
    /\ pc = "fps_check"
    /\ end_time >= TicksPerSec
    /\ report' = <<frame_counter, end_time>>
    /\ start_time' = now
    /\ since_reset' = 0
    /\ count' = [Bump("fps") EXCEPT !["report"] = @ + 1]
    /\ pc' = "show"
    /\ UNCHANGED <<image_shape, input_size, dvars, rvars, model_classes, now,
                   frame_counter, end_time, outputs, ret, quit_seen>>

\* lines 168-172 when end_time >= 1
FpsReport ==
    /\ pc = "fps_check"
    /\ end_time >= TicksPerSec
    /\ report' = <<frame_counter, end_time>>
    /\ frame_counter' = 0
    /\ start_time' = now
    /\ since_reset' = 0
    /\ count' = [Bump("fps") EXCEPT !["report"] = @ + 1]
    /\ pc' = "show"
    /\ UNCHANGED <<image_shape, input_size, dvars, rvars, model_classes, now,
                   end_time, outputs, ret, quit_seen>>

\* line 168 when end_time < 1
FpsSkip ==
    /\ pc = "fps_check"
    /\ end_time < TicksPerSec
    /\ count' = Bump("fps")
    /\ pc' = "show"
    /\ UNCHANGED <<image_shape, input_size, dvars, rvars, model_classes, now,
                   start_time, frame_counter, end_time, report, outputs, ret,
                   since_reset, quit_seen>>

\* line 174
Show ==
    /\ pc = "show"
    /\ count' = Bump("show")
    /\ pc' = "poll"
    /\ UNCHANGED <<image_shape, input_size, dvars, rvars, model_classes, now,
                   start_time, frame_counter, end_time, report, outputs, ret,
                   since_reset, quit_seen>>

\* line 175: another key or none
PollContinue ==
    /\ pc = "poll"
    /\ count' = Bump("poll")
    /\ pc' = "read"
    /\ UNCHANGED <<image_shape, input_size, dvars, rvars, model_classes, now,
                   start_time, frame_counter, end_time, report, outputs, ret,
                   since_reset, quit_seen>>

\* Faulty variant of PollQuit: returns instead of leaving the loop
PollQuitReturn ==
    /\ pc = "poll"
    /\ count' = Bump("poll")
    /\ quit_seen' = TRUE
    /\ pc' = "done"
    /\ UNCHANGED <<image_shape, input_size, dvars, rvars, model_classes, now,
                   start_time, frame_counter, end_time, report, outputs, ret,
                   since_reset>>

\* lines 175-176: the key is 'q', break
PollQuit ==
    /\ pc = "poll"
    /\ count' = Bump("poll")
    /\ quit_seen' = TRUE
    /\ pc' = "release"
    /\ UNCHANGED <<image_shape, input_size, dvars, rvars, model_classes, now,
                   start_time, frame_counter, end_time, report, outputs, ret,
                   since_reset>>

\* lines 180-181
Release ==
    /\ pc = "release"
    /\ count' = Bump("release")
    /\ pc' = "done"
    /\ UNCHANGED <<image_shape, input_size, dvars, rvars, model_classes, now,
                   start_time, frame_counter, end_time, report, outputs, ret,
                   since_reset, quit_seen>>

NextLoop ==
    \/ Tick \/ CameraOpened \/ CameraNotOpened \/ ReadFrame \/ ReadFails
    \/ Infer \/ Annotate \/ AnnotateFails \/ FpsCount \/ FpsReport \/ FpsSkip
    \/ Show \/ PollContinue \/ PollQuit \/ Release

SpecLoop == InitLoop /\ [][NextLoop]_vars

----------------------------------------------------------------------------
(* Properties of test() *)

Unchanged(step) == count'[step] = count[step]

\* C6: a failed read is reported and ends the loop in the same iteration:
\* afterwards nothing is inferred, annotated, counted, shown, polled or read,
\* and the camera is released exactly once before test() returns.
C6_CaptureFailureStops ==
    /\ [][(ret # "false" /\ ret' = "false") =>
             (pc = "read" /\ pc' = "release"
              /\ count'["read_failed"] = 1)]_vars
    /\ [][ret = "false" =>
             /\ ret' = "false"
             /\ \A st \in Steps \ {"release"} : Unchanged(st)
             /\ pc' \in {"release", "done"}
             /\ pc' # pc => count'["release"] = count["release"] + 1]_vars
    /\ []((ret = "false" /\ pc = "done") => count["release"] = 1)
    /\ []((ret = "false" /\ pc = "release") => count["release"] = 0)

\* test() has returned after a failed read that followed two shown frames
C6_Witness ==
    /\ pc = "done"
    /\ ret = "false"
    /\ count["show"] = 2
    /\ count["read_failed"] = 1
    /\ count["release"] = 1

\* C7: frame_counter is the number of frames processed since the last reset;
\* the iteration that finds end_time >= 1 second prints frame_counter and
\* end_time (fps is their quotient), sets frame_counter to 0 and restarts the
\* interval; an iteration that finds end_time < 1 second prints and resets
\* nothing.  With end_time exactly 1 second the printed rate is frame_counter.
C7_FpsReset ==
    /\ [](pc \in {"read", "infer", "show", "poll"} => frame_counter = since_reset)
    /\ [][(pc = "fps" /\ pc' # pc) =>
             /\ frame_counter' = frame_counter + 1
             /\ end_time' = now - start_time]_vars
    /\ [][(pc = "fps_check" /\ pc' # pc /\ end_time >= TicksPerSec) =>
             /\ report' = <<frame_counter, end_time>>
             /\ count'["report"] = count["report"] + 1
             /\ frame_counter' = 0
             /\ start_time' = now]_vars
    /\ [][(pc = "fps_check" /\ pc' # pc /\ end_time < TicksPerSec) =>
             UNCHANGED <<report, frame_counter, start_time>>
             /\ Unchanged("report")]_vars
    /\ [][pc # "fps_check" => UNCHANGED report /\ Unchanged("report")]_vars

\* exactly one second after the last reset, with two frames processed, the
\* loop has printed the rate 2 and the counter is 0
C7_Witness ==
    /\ pc = "show"
    /\ report = <<2, TicksPerSec>>
    /\ count["report"] = 1
    /\ frame_counter = 0
    /\ start_time = now

\* C8: a label list that does not match the model's class count is rejected
\* before the first frame is read, so no iteration fails for a class id
\* without label or color.
C8_RejectedBeforeLoop == pc = "crashed" => count["read"] = 0

AllStepsDone ==
    \A st \in {"infer", "annotate", "fps", "show", "poll"} :
        count[st] = count["read"]

\* C9: the quit key is polled once per iteration, after the frame has been
\* shown: when the poll sees it, every frame read so far has been inferred,
\* annotated, counted and shown; afterwards no frame is read or inferred and
\* the loop ends with the camera released.
C9_QuitBetweenFrames ==
    /\ []((pc = "read" /\ count["read_failed"] = 0) => AllStepsDone)
    /\ [][~Unchanged("poll") =>
             (pc = "poll" /\ count["show"] = count["poll"] + 1)]_vars
    /\ [][(~quit_seen /\ quit_seen') =>
             (pc = "poll" /\ pc' = "release" /\ AllStepsDone')]_vars
    /\ [][quit_seen =>
             /\ quit_seen'
             /\ \A st \in Steps \ {"release"} : Unchanged(st)
             /\ pc' \in {"release", "done"}]_vars
    /\ []((quit_seen /\ pc = "done") => count["release"] = 1)

\* test() has returned after a quit seen on the second frame
C9_Witness ==
    /\ pc = "done"
    /\ quit_seen
    /\ count["read"] = 2
    /\ count["show"] = 2
    /\ count["poll"] = 2
    /\ count["release"] = 1

====
